---- MODULE Spec2Model ----
(***************************************************************************)
(* Macro-controlled logging (mcl.h): the level gate.                       *)
(*                                                                         *)
(* The header is a set of preprocessor macros.  A build fixes three        *)
(* configuration macros (DYNAMIC_LOG_LVL, DYNAMIC_LOG_LVL_MIN,             *)
(* DYNAMIC_LOG_LVL_MAX); a program then defines logging systems, each one  *)
(* a single cell of type __log_lvl_t (char), reads and writes the cell     *)
(* with GET_LOG_SYSTEM_LVL / SET_LOG_SYSTEM_LVL and logs through the eight *)
(* LOG_<level> macros.                                                     *)
(*                                                                         *)
(* A macro argument is substituted textually, so an argument expression is *)
(* evaluated once per occurrence in the expansion.  An argument is         *)
(* modelled by the sequence of values its successive evaluations yield.    *)
(***************************************************************************)
EXTENDS Integers, Sequences, FiniteSets, TLC

\* ---------------------------------------------------------------- bounds

\* How far beyond the level scale (LOG_LVL_NONE .. LOG_LVL_TRACE + 1) the
\* requested levels reach on either side.
ReqSlack == 1

\* Largest value of the caller's variable x at which x++ is still used as
\* an argument.
MaxX == 6

\* ------------------------------------------------------ program constants

LOG_LVL_FATAL == 0
LOG_LVL_ERROR == 1
LOG_LVL_WARN == 2
LOG_LVL_MSG == 3
LOG_LVL_INFO == 4
LOG_LVL_VERBOSE == 5
LOG_LVL_DEBUG == 6
LOG_LVL_TRACE == 7
LOG_LVL_NONE == -1
LOG_LVL_ALL == 127

\* The levels that have a logging macro.
Levels == LOG_LVL_FATAL .. LOG_LVL_TRACE

\* The logging systems of the program: two, named a and b, so that each
\* operation on one has another to leave alone.
Systems == {"a", "b"}

NoSystem == "-"

\* Values a caller passes as a level: every named constant, and the integers
\* around the scale.
Requested ==
  ((LOG_LVL_NONE - ReqSlack) .. (LOG_LVL_TRACE + ReqSlack))
    \cup {LOG_LVL_ALL, LOG_LVL_ALL + ReqSlack}

VARIABLES
  defines,   \* the configuration macros the build sets (-D), name -> value
  defined,   \* the logging systems whose DEFINE_LOG_SYSTEM has taken effect
  log_lvl,   \* log_lvl[name]: the cell __<name>_log_lvl
  x,         \* an int variable of the caller, used in argument expressions
  pc,        \* where a SET_LOG_SYSTEM_LVL(name, x) racing a writer stands
  fresh,     \* history: the latest DEFINE_LOG_SYSTEM not yet followed by a set
  last       \* the latest operation and what it gave

vars == <<defines, defined, log_lvl, x, pc, fresh, last>>

\* ------------------------------------------------- build configuration

\* #ifndef DYNAMIC_LOG_LVL / #define DYNAMIC_LOG_LVL 1
DYNAMIC_LOG_LVL ==
  IF "DYNAMIC_LOG_LVL" \in DOMAIN defines
    THEN defines["DYNAMIC_LOG_LVL"] ELSE 1

\* #ifndef DYNAMIC_LOG_LVL_MAX / #define DYNAMIC_LOG_LVL_MAX LOG_LVL_VERBOSE
DYNAMIC_LOG_LVL_MAX ==
  IF "DYNAMIC_LOG_LVL_MAX" \in DOMAIN defines
    THEN defines["DYNAMIC_LOG_LVL_MAX"] ELSE LOG_LVL_VERBOSE

\* #ifndef DYNAMIC_LOG_LVL_MIN / #define DYNAMIC_LOG_LVL_MIN LOG_LVL_WARN
DYNAMIC_LOG_LVL_MIN ==
  IF "DYNAMIC_LOG_LVL_MIN" \in DOMAIN defines
    THEN defines["DYNAMIC_LOG_LVL_MIN"] ELSE LOG_LVL_WARN

\* #if DYNAMIC_LOG_LVL_MIN > DYNAMIC_LOG_LVL_MAX / #error: no program is built.
BuildSucceeds == ~(DYNAMIC_LOG_LVL_MIN > DYNAMIC_LOG_LVL_MAX)

\* The values a build gives each configuration macro when it sets it.
\* DYNAMIC_LOG_LVL_MAX may be LOG_LVL_ALL ("to avoid deleting logging
\* statements at compile time"); the bounds are otherwise levels of the scale.
MacroValues ==
  [DYNAMIC_LOG_LVL     |-> {0},
   DYNAMIC_LOG_LVL_MAX |-> Levels \cup {LOG_LVL_ALL},
   DYNAMIC_LOG_LVL_MIN |-> Levels]

\* The command lines considered: any subset of the three macros set.
CommandLines ==
  UNION { [D -> Requested \cup {0}] : D \in SUBSET DOMAIN MacroValues }

ValidCommandLine(d) == \A m \in DOMAIN d : d[m] \in MacroValues[m]

\* --------------------------------------------------------- __log_lvl_t

\* typedef char __log_lvl_t: a conversion to char keeps the low eight bits;
\* whether plain char is signed is the implementation's choice, so a value
\* outside 0 .. 127 can be stored as either reading.
ToLogLvlT(v) == { v % 256, ((v + 128) % 256) - 128 }

\* ---------------------------------------------------------- LOG_ACTION

NoOutput == "none"

\* The default LOG_ACTION: FATAL, ERROR and WARN go to stderr, the rest to
\* stdout.
LOG_ACTION(lvl) ==
  IF lvl \in {LOG_LVL_FATAL, LOG_LVL_ERROR, LOG_LVL_WARN}
    THEN "stderr" ELSE "stdout"

\* ------------------------------------------------------ __LOG_LVL_CLAMP

\* Mutant of LOG_LVL_CLAMP: the lower bound is not enforced.
LOG_LVL_CLAMP_NoLowerBound(e) ==
  IF e[1] > DYNAMIC_LOG_LVL_MAX THEN DYNAMIC_LOG_LVL_MAX ELSE e[3]

\* (lvl > MAX ? MAX : (lvl < MIN ? MIN : lvl)) with lvl substituted
\* textually: e[1], e[2], e[3] are the values of its first, second and third
\* evaluation.
LOG_LVL_CLAMP(e) ==
  IF e[1] > DYNAMIC_LOG_LVL_MAX THEN DYNAMIC_LOG_LVL_MAX
  ELSE IF e[2] < DYNAMIC_LOG_LVL_MIN THEN DYNAMIC_LOG_LVL_MIN
  ELSE e[3]

\* How many times __LOG_LVL_CLAMP evaluates its argument.
ClampEvals(e) ==
  IF e[1] > DYNAMIC_LOG_LVL_MAX THEN 1
  ELSE IF e[2] < DYNAMIC_LOG_LVL_MIN THEN 2
  ELSE 3

\* An argument without side effects that nothing writes meanwhile.
Pure(v) == <<v, v, v>>

\* ----------------------------------------------------------------- state

\* last: op, the operation; sys, its logging system; arg, the level it was
\* given (the first value read, when the argument is an expression); has_ret
\* and ret, the value it gave; out, where LOG_ACTION wrote.  A
\* GET_LOG_SYSTEM_LVL that comes right after a SET_LOG_SYSTEM_LVL of the same
\* system has after_set and, as arg, the level that set was given.
NoOp == [op |-> "none", sys |-> NoSystem, arg |-> 0, has_ret |-> FALSE,
         ret |-> 0, out |-> NoOutput, after_set |-> FALSE]

\* pc: at, the read that comes next ("idle": no set under way); sys, the
\* system being set; arg, the value the first read gave.
Idle == [at |-> "idle", sys |-> NoSystem, arg |-> 0]

\* fresh: sys, the system defined last, until it is set; lvl, the level its
\* DEFINE_LOG_SYSTEM was given.
NotFresh == [sys |-> NoSystem, lvl |-> 0]

Init ==
  /\ defines \in CommandLines
  /\ ValidCommandLine(defines)
  /\ BuildSucceeds
  /\ defined = {}
  /\ log_lvl = [s \in Systems |-> 0]
  /\ x = 0
  /\ pc = Idle
  /\ fresh = NotFresh
  /\ last = NoOp

\* ------------------------------------------------------------ operations

\* The program runs: static initialisation is over, every logging system of
\* the program text is defined.
Running == defined = Systems

\* Mutant of DEFINE_LOG_SYSTEM: the initialiser is lvl, not clamped.
DEFINE_LOG_SYSTEM_NoClamp(name, lvl) ==
  /\ name \notin defined
  /\ pc = Idle
  /\ defined' = defined \cup {name}
  /\ IF DYNAMIC_LOG_LVL # 0
       THEN \E r \in ToLogLvlT(lvl) : log_lvl' = [log_lvl EXCEPT ![name] = r]
       ELSE log_lvl' = log_lvl
  /\ fresh' = [sys |-> name, lvl |-> lvl]
  /\ last' = [NoOp EXCEPT !.op = "define", !.sys = name, !.arg = lvl]
  /\ UNCHANGED <<defines, x, pc>>

\* DEFINE_LOG_SYSTEM(name, lvl): the definition of the cell with its
\* initialiser, __LOG_LVL_CLAMP(lvl), lvl a constant expression.  Without
\* DYNAMIC_LOG_LVL it expands to nothing and there is no cell.
DEFINE_LOG_SYSTEM(name, lvl) ==
  /\ name \notin defined
  /\ pc = Idle
  /\ defined' = defined \cup {name}
  /\ IF DYNAMIC_LOG_LVL # 0
       THEN \E r \in ToLogLvlT(LOG_LVL_CLAMP(Pure(lvl))) :
              log_lvl' = [log_lvl EXCEPT ![name] = r]
       ELSE log_lvl' = log_lvl
  /\ fresh' = [sys |-> name, lvl |-> lvl]
  /\ last' = [NoOp EXCEPT !.op = "define", !.sys = name, !.arg = lvl]
  /\ UNCHANGED <<defines, x, pc>>

\* Mutant of GET_LOG_SYSTEM_LVL: the cell in every build.
GET_LOG_SYSTEM_LVL_Cell(name) == log_lvl[name]

\* GET_LOG_SYSTEM_LVL(name): the cell, or DYNAMIC_LOG_LVL_MAX without
\* DYNAMIC_LOG_LVL.
GET_LOG_SYSTEM_LVL(name) ==
  IF DYNAMIC_LOG_LVL # 0 THEN log_lvl[name] ELSE DYNAMIC_LOG_LVL_MAX

GetLevel(name) ==
  /\ Running
  /\ pc = Idle
  /\ last' = [NoOp EXCEPT !.op = "get", !.sys = name, !.has_ret = TRUE,
                          !.ret = GET_LOG_SYSTEM_LVL(name),
                          !.after_set = (last.op = "set" /\ last.sys = name),
                          !.arg = IF last.op = "set" /\ last.sys = name
                                    THEN last.arg ELSE 0]
  /\ UNCHANGED <<defines, defined, log_lvl, x, pc, fresh>>

\* Mutant of Assign: one cell shared by all logging systems.
Assign_SharedCell(name, arg, v) ==
  /\ \E r \in ToLogLvlT(v) :
       /\ log_lvl' = [s \in Systems |-> r]
       /\ last' = [NoOp EXCEPT !.op = "set", !.sys = name, !.arg = arg,
                               !.has_ret = TRUE, !.ret = r]
  /\ fresh' = IF fresh.sys = name THEN NotFresh ELSE fresh
  /\ UNCHANGED <<defines, defined>>

\* The assignment cell = v, v the value __LOG_LVL_CLAMP came to for an
\* argument whose first evaluation gave arg: v is converted to __log_lvl_t
\* and stored, and the assignment expression has the cell's new value.
Assign(name, arg, v) ==
  /\ \E r \in ToLogLvlT(v) :
       /\ log_lvl' = [log_lvl EXCEPT ![name] = r]
       /\ last' = [NoOp EXCEPT !.op = "set", !.sys = name, !.arg = arg,
                               !.has_ret = TRUE, !.ret = r]
  /\ fresh' = IF fresh.sys = name THEN NotFresh ELSE fresh
  /\ UNCHANGED <<defines, defined>>

\* Mutant of SET_LOG_SYSTEM_LVL: (cell = lvl), not clamped.
SET_LOG_SYSTEM_LVL_NoClamp(name, e) ==
  IF DYNAMIC_LOG_LVL # 0
    THEN Assign(name, e[1], e[1])
    ELSE /\ last' = [NoOp EXCEPT !.op = "set", !.sys = name, !.arg = e[1]]
         /\ fresh' = IF fresh.sys = name THEN NotFresh ELSE fresh
         /\ UNCHANGED <<defines, defined, log_lvl>>

\* SET_LOG_SYSTEM_LVL(name, lvl) with e the values lvl's evaluations yield:
\* (cell = __LOG_LVL_CLAMP(lvl)).  Without DYNAMIC_LOG_LVL it expands to
\* nothing: no store, no value, and lvl is not evaluated.
SET_LOG_SYSTEM_LVL(name, e) ==
  IF DYNAMIC_LOG_LVL # 0
    THEN Assign(name, e[1], LOG_LVL_CLAMP(e))
    ELSE /\ last' = [NoOp EXCEPT !.op = "set", !.sys = name, !.arg = e[1]]
         /\ fresh' = IF fresh.sys = name THEN NotFresh ELSE fresh
         /\ UNCHANGED <<defines, defined, log_lvl>>

\* SET_LOG_SYSTEM_LVL(name, v), v a value.
SetLevel(name, v) ==
  /\ Running
  /\ pc = Idle
  /\ SET_LOG_SYSTEM_LVL(name, Pure(v))
  /\ UNCHANGED <<x, pc>>

\* Mutant of LOG: the run-time test is cell > <level>.
LOG_StrictCompare(name, lvl) ==
  IF DYNAMIC_LOG_LVL_MAX >= lvl
    THEN IF DYNAMIC_LOG_LVL # 0 /\ DYNAMIC_LOG_LVL_MIN <= lvl
           THEN IF log_lvl[name] > lvl THEN LOG_ACTION(lvl) ELSE NoOutput
           ELSE LOG_ACTION(lvl)
    ELSE NoOutput

\* Mutant of LOG: no run-time test, every statement up to DYNAMIC_LOG_LVL_MAX
\* is hardwired.
LOG_NoRuntimeTest(name, lvl) ==
  IF DYNAMIC_LOG_LVL_MAX >= lvl THEN LOG_ACTION(lvl) ELSE NoOutput

\* Mutant of LOG: no statement is deleted at compile time.
LOG_NoOmission(name, lvl) ==
  IF DYNAMIC_LOG_LVL # 0 /\ DYNAMIC_LOG_LVL_MIN <= lvl
    THEN IF log_lvl[name] >= lvl THEN LOG_ACTION(lvl) ELSE NoOutput
    ELSE LOG_ACTION(lvl)

\* The gate of LOG_<level>(name, args...), the same text for each of the
\* eight levels:
\*   #if DYNAMIC_LOG_LVL_MAX >= <level>
\*   #if DYNAMIC_LOG_LVL && (DYNAMIC_LOG_LVL_MIN <= <level>)
\*     if(cell >= <level>) LOG_ACTION(<level>, args)
\*   #else  LOG_ACTION(<level>, args)
\*   #else  nothing
LOG(name, lvl) ==
  IF DYNAMIC_LOG_LVL_MAX >= lvl
    THEN IF DYNAMIC_LOG_LVL # 0 /\ DYNAMIC_LOG_LVL_MIN <= lvl
           THEN IF log_lvl[name] >= lvl THEN LOG_ACTION(lvl) ELSE NoOutput
           ELSE LOG_ACTION(lvl)
    ELSE NoOutput

Log(name, lvl) ==
  /\ Running
  /\ pc = Idle
  /\ last' = [NoOp EXCEPT !.op = "log", !.sys = name, !.arg = lvl,
                          !.out = LOG(name, lvl)]
  /\ UNCHANGED <<defines, defined, log_lvl, x, pc, fresh>>

LOG_FATAL(name) == Log(name, LOG_LVL_FATAL)
LOG_ERROR(name) == Log(name, LOG_LVL_ERROR)
LOG_WARN(name) == Log(name, LOG_LVL_WARN)
LOG_MSG(name) == Log(name, LOG_LVL_MSG)
LOG_INFO(name) == Log(name, LOG_LVL_INFO)
LOG_VERBOSE(name) == Log(name, LOG_LVL_VERBOSE)
LOG_DEBUG(name) == Log(name, LOG_LVL_DEBUG)
LOG_TRACE(name) == Log(name, LOG_LVL_TRACE)

Next ==
  \E name \in Systems :
    \/ \E lvl \in Requested : DEFINE_LOG_SYSTEM(name, lvl)
    \/ GetLevel(name)
    \/ \E v \in Requested : SetLevel(name, v)
    \/ LOG_FATAL(name)
    \/ LOG_ERROR(name)
    \/ LOG_WARN(name)
    \/ LOG_MSG(name)
    \/ LOG_INFO(name)
    \/ LOG_VERBOSE(name)
    \/ LOG_DEBUG(name)
    \/ LOG_TRACE(name)

\* Programs whose SET_LOG_SYSTEM_LVL arguments are values.
Spec == Init /\ [][Next]_vars

\* ------------------------------------ arguments that are not values

\* SET_LOG_SYSTEM_LVL(name, x++): each evaluation of the argument yields x
\* and increments it.
SetLevelPostInc(name) ==
  /\ Running
  /\ pc = Idle
  /\ x <= MaxX
  /\ SET_LOG_SYSTEM_LVL(name, <<x, x + 1, x + 2>>)
  /\ x' = IF DYNAMIC_LOG_LVL # 0
            THEN x + ClampEvals(<<x, x + 1, x + 2>>) ELSE x
  /\ UNCHANGED pc

\* Another thread stores v in x.
WriteX(v) ==
  /\ Running
  /\ x' = v
  /\ UNCHANGED <<defines, defined, log_lvl, pc, fresh, last>>

\* SET_LOG_SYSTEM_LVL(name, x) while another thread writes x: the three
\* evaluations of x in __LOG_LVL_CLAMP are three reads, taken one step each.
\* First read: x > DYNAMIC_LOG_LVL_MAX.
SetLevelRead1(name) ==
  /\ Running
  /\ pc = Idle
  /\ DYNAMIC_LOG_LVL # 0
  /\ IF x > DYNAMIC_LOG_LVL_MAX
       THEN /\ Assign(name, x, DYNAMIC_LOG_LVL_MAX)
            /\ UNCHANGED pc
       ELSE /\ pc' = [at |-> "min", sys |-> name, arg |-> x]
            /\ UNCHANGED <<defines, defined, log_lvl, fresh, last>>
  /\ UNCHANGED x

\* Second read: x < DYNAMIC_LOG_LVL_MIN.
SetLevelRead2 ==
  /\ pc.at = "min"
  /\ IF x < DYNAMIC_LOG_LVL_MIN
       THEN /\ Assign(pc.sys, pc.arg, DYNAMIC_LOG_LVL_MIN)
            /\ pc' = Idle
       ELSE /\ pc' = [pc EXCEPT !.at = "val"]
            /\ UNCHANGED <<defines, defined, log_lvl, fresh, last>>
  /\ UNCHANGED x

\* Third read: the value stored.
SetLevelRead3 ==
  /\ pc.at = "val"
  /\ Assign(pc.sys, pc.arg, x)
  /\ pc' = Idle
  /\ UNCHANGED x

\* The build that sets none of the configuration macros.
InitExpr == Init /\ defines = <<>>

NextExpr ==
  \/ \E name \in Systems, lvl \in Requested : DEFINE_LOG_SYSTEM(name, lvl)
  \/ \E name \in Systems : SetLevelPostInc(name)
  \/ \E name \in Systems : SetLevelRead1(name)
  \/ SetLevelRead2
  \/ SetLevelRead3
  \/ \E v \in Requested : WriteX(v)

\* Programs whose SET_LOG_SYSTEM_LVL arguments are x++, or x with another
\* thread writing x.
SpecExpr == InitExpr /\ [][NextExpr]_vars

\* ------------------------------------------------------------- claims

\* clamp(v, dynamicMin, dynamicMax) as the specification defines it.
Clamp(v, lo, hi) == IF v > hi THEN hi ELSE IF v < lo THEN lo ELSE v

DynamicEnabled == DYNAMIC_LOG_LVL # 0

InRange(v) == DYNAMIC_LOG_LVL_MIN <= v /\ v <= DYNAMIC_LOG_LVL_MAX

Fired == last.out # NoOutput

NoOverrides == defines = <<>>

\* C1: with dynamic adjustment enabled, the cell of every defined logging
\* system lies in [DYNAMIC_LOG_LVL_MIN, DYNAMIC_LOG_LVL_MAX] in every state
\* reached by definitions, sets with integer values and log statements.
C1_ThresholdInRange ==
  DynamicEnabled => \A s \in defined : InRange(log_lvl[s])

\* C1 witness: a set with a value below the range has taken place.
C1_Witness ==
  /\ DynamicEnabled
  /\ last.op = "set"
  /\ last.arg < DYNAMIC_LOG_LVL_MIN
  /\ log_lvl[last.sys] = DYNAMIC_LOG_LVL_MIN

\* C2: with dynamic adjustment enabled, a set with requested value v gives
\* clamp(v), and a get of the same system right after it gives that value too.
C2_SetThenGet ==
  DynamicEnabled =>
    /\ last.op = "set" =>
         /\ last.has_ret
         /\ last.ret = Clamp(last.arg, DYNAMIC_LOG_LVL_MIN, DYNAMIC_LOG_LVL_MAX)
    /\ (last.op = "get" /\ last.after_set) =>
         last.ret = Clamp(last.arg, DYNAMIC_LOG_LVL_MIN, DYNAMIC_LOG_LVL_MAX)

\* C2 witness: a get right after a set with dynamicMax + 1 gave dynamicMax.
C2_Witness ==
  /\ DynamicEnabled
  /\ last.op = "get"
  /\ last.after_set
  /\ last.arg = DYNAMIC_LOG_LVL_MAX + 1
  /\ last.ret = DYNAMIC_LOG_LVL_MAX

\* C3: with dynamic adjustment enabled, a log statement at a level
\* L <= dynamicMin runs the output action whatever the cell holds.
C3_AtOrBelowMinAlwaysFires ==
  (DynamicEnabled /\ last.op = "log" /\ last.arg <= DYNAMIC_LOG_LVL_MIN)
    => Fired

\* C3 witness: a log statement at L = dynamicMin, which is tested at run
\* time, ran the action with the cell at its lowest.
C3_Witness ==
  /\ DynamicEnabled
  /\ last.op = "log"
  /\ last.arg = DYNAMIC_LOG_LVL_MIN
  /\ log_lvl[last.sys] = DYNAMIC_LOG_LVL_MIN
  /\ DYNAMIC_LOG_LVL_MIN < DYNAMIC_LOG_LVL_MAX
  /\ Fired

\* C4: with dynamic adjustment enabled, a log statement at a level L with
\* dynamicMin < L <= dynamicMax runs the output action iff the cell is >= L.
C4_InRangeFiresIffThreshold ==
  (/\ DynamicEnabled
   /\ last.op = "log"
   /\ DYNAMIC_LOG_LVL_MIN < last.arg
   /\ last.arg <= DYNAMIC_LOG_LVL_MAX)
    => (Fired <=> log_lvl[last.sys] >= last.arg)

\* C4 witness: bounds [WARN, VERBOSE], cell MSG, LOG_INFO did not run the
\* action.
C4_Witness ==
  /\ NoOverrides
  /\ last.op = "log"
  /\ last.arg = LOG_LVL_INFO
  /\ log_lvl[last.sys] = LOG_LVL_MSG
  /\ ~Fired

\* C5: a log statement at a level L > dynamicMax never runs the output
\* action, with dynamic adjustment enabled or disabled.
C5_AboveMaxNeverFires ==
  (last.op = "log" /\ last.arg > DYNAMIC_LOG_LVL_MAX) => ~Fired

\* C5 witness: LOG_DEBUG in a build with dynamic adjustment disabled and the
\* default dynamicMax.
C5_Witness ==
  /\ ~DynamicEnabled
  /\ DYNAMIC_LOG_LVL_MAX = LOG_LVL_VERBOSE
  /\ last.op = "log"
  /\ last.arg = LOG_LVL_DEBUG

\* C6: with dynamic adjustment disabled, a set stores nothing and gives no
\* value, a get gives dynamicMax, and a log statement at any level
\* L <= dynamicMax runs the output action.
C6_DisabledBuild ==
  ~DynamicEnabled =>
    /\ log_lvl = [s \in Systems |-> 0]
    /\ last.op = "set" => ~last.has_ret
    /\ last.op = "get" => last.ret = DYNAMIC_LOG_LVL_MAX
    /\ (last.op = "log" /\ last.arg <= DYNAMIC_LOG_LVL_MAX) => Fired

\* C6 witness: a get right after a set with a level below dynamicMax, dynamic
\* adjustment disabled.
C6_Witness ==
  /\ ~DynamicEnabled
  /\ last.op = "get"
  /\ last.after_set
  /\ last.arg < DYNAMIC_LOG_LVL_MAX
  /\ last.arg >= DYNAMIC_LOG_LVL_MIN

\* C7: with dynamic adjustment enabled, a get of a system defined with
\* default d and not set since gives clamp(d).
C7_InitialLevelClamped ==
  (DynamicEnabled /\ last.op = "get" /\ fresh.sys = last.sys)
    => last.ret = Clamp(fresh.lvl, DYNAMIC_LOG_LVL_MIN, DYNAMIC_LOG_LVL_MAX)

\* C7 witness: bounds [WARN, VERBOSE], default ERROR, the get gave WARN.
C7_Witness ==
  /\ NoOverrides
  /\ last.op = "get"
  /\ fresh.sys = last.sys
  /\ fresh.lvl = LOG_LVL_ERROR
  /\ last.ret = LOG_LVL_WARN

\* C8: in the build that sets none of the configuration macros the bounds
\* are [ERROR, VERBOSE], and a set with LOG_LVL_ERROR gives ERROR.
C8_DefaultMinIsError ==
  (NoOverrides /\ last.op = "set" /\ last.arg = LOG_LVL_ERROR) =>
    /\ DYNAMIC_LOG_LVL_MIN = LOG_LVL_ERROR
    /\ DYNAMIC_LOG_LVL_MAX = LOG_LVL_VERBOSE
    /\ last.ret = LOG_LVL_ERROR

\* C9: a set of one logging system leaves the cell of every other system
\* unchanged, and a log statement leaves every cell unchanged.
C9_Independent ==
  [][/\ last'.op = "set" =>
          \A b \in Systems \ {last'.sys} : log_lvl'[b] = log_lvl[b]
     /\ last'.op = "log" => log_lvl' = log_lvl]_vars

\* C9 witness: a has been set to a level that b does not hold.
C9_Witness ==
  /\ DynamicEnabled
  /\ last.op = "set"
  /\ last.sys = "a"
  /\ log_lvl["a"] # log_lvl["b"]

\* C10: a set whose argument is an expression that differs between
\* evaluations still leaves the cell in [dynamicMin, dynamicMax], at the clamp
\* of the value that was range-checked.
C10_ExprArgumentClamped ==
  (DynamicEnabled /\ last.op = "set") =>
    /\ InRange(log_lvl[last.sys])
    /\ log_lvl[last.sys] =
         Clamp(last.arg, DYNAMIC_LOG_LVL_MIN, DYNAMIC_LOG_LVL_MAX)

====
